---- MODULE Spec2Model ----
(***************************************************************************)
(* Model of livetracker_staticone.py: a Streamlit script that, once per    *)
(* page load, loads two hourly price series (live from Binance, or a       *)
(* frozen per-day snapshot), aligns and normalises them, renders charts    *)
(* and a leading-asset banner, and appends one row to today's CSV log.     *)
(*                                                                         *)
(* Floats are modelled as exact fractions <<num, den>> with den > 0; the   *)
(* pair <<0, 0>> is NaN.  Timestamps and calendar dates are naturals.      *)
(***************************************************************************)
EXTENDS Integers, Sequences, FiniteSets, TLC

VARIABLES
    today,        \* the calendar date datetime.now() reports
    runs,         \* number of page loads executed so far
    raw_data,     \* data_logs/raw_data: filename -> lines of the snapshot CSV
    logs,         \* data_logs: date of crypto_tracker_<date>.csv -> its lines
    run,          \* what the last page load did (mode, outcome, UI output)
    lastFetched,  \* history: date -> the series of the last successful fetch
    logHist,      \* history: date -> the rows of the runs that logged that day
    pc,           \* pipeline position (pipeline-only specification)
    btc_df,       \* pipeline input: BTC series
    eth_df,       \* pipeline input: ETH series
    data,         \* pipeline: the aligned frame
    portfolios,   \* pipeline: the normalised portfolio frame
    banner        \* pipeline: the leading-asset banner

vars == <<today, runs, raw_data, logs, run, lastFetched, logHist,
          pc, btc_df, eth_df, data, portfolios, banner>>

fsvars == <<today, runs, raw_data, logs, run, lastFetched, logHist>>
pipevars == <<pc, btc_df, eth_df, data, portfolios, banner>>

----------------------------------------------------------------------------
(* Bounds *)

MaxDay == 2          \* calendar dates 1..MaxDay
MaxRuns == 2         \* page loads per behaviour
MaxTs == 3           \* timestamps 1..MaxTs (pipeline specification)
MaxPrice == 2        \* close prices 1..MaxPrice (pipeline specification)

Dates == 1..MaxDay

----------------------------------------------------------------------------
(* Floats *)

NaN == <<0, 0>>

IsNaN(x) == x[2] = 0

F(n) == <<n, 1>>

FDiv(a, b) ==
    IF IsNaN(a) \/ IsNaN(b) \/ b[1] = 0 THEN NaN ELSE <<a[1] * b[2], a[2] * b[1]>>

FMul(a, b) ==
    IF IsNaN(a) \/ IsNaN(b) THEN NaN ELSE <<a[1] * b[1], a[2] * b[2]>>

FAdd(a, b) ==
    IF IsNaN(a) \/ IsNaN(b) THEN NaN ELSE <<a[1] * b[2] + b[1] * a[2], a[2] * b[2]>>

FSub(a, b) ==
    IF IsNaN(a) \/ IsNaN(b) THEN NaN ELSE <<a[1] * b[2] - b[1] * a[2], a[2] * b[2]>>

\* a > b on floats: any comparison with NaN is false
FGt(a, b) == ~IsNaN(a) /\ ~IsNaN(b) /\ a[1] * b[2] > b[1] * a[2]

FEq(a, b) == ~IsNaN(a) /\ ~IsNaN(b) /\ a[1] * b[2] = b[1] * a[2]

Half == <<1, 2>>

----------------------------------------------------------------------------
(* Price series: a sequence of [timestamp, price] rows, timestamps strictly *)
(* increasing (Binance returns klines in ascending open-time order).        *)

\* the klines of a response: any subset of the open times lo..hi, each with a
\* close price drawn from closes
RECURSIVE KlinesFrom(_, _, _)
KlinesFrom(lo, hi, closes) ==
    IF lo > hi THEN {<<>>}
    ELSE LET rest == KlinesFrom(lo + 1, hi, closes)
         IN  rest \cup {<<[timestamp |-> lo, close |-> c]>> \o s :
                            c \in closes, s \in rest}

\* lines 51-59: keep open time and close, the close as a float
to_frame(klines) ==
    [i \in DOMAIN klines |->
        [timestamp |-> klines[i].timestamp, price |-> F(klines[i].close)]]

Kline(t, c) == [timestamp |-> t, close |-> c]

\* The responses of the klines endpoint a page load may meet: an HTTP failure,
\* or a 2xx whose body holds no kline, one kline, a rising pair or a falling
\* pair of hourly klines.
Responses ==
    {[ok |-> FALSE, klines |-> <<>>]} \cup
    {[ok |-> TRUE, klines |-> k] :
        k \in {<<>>,
                <<Kline(1, 1)>>,
                <<Kline(1, 1), Kline(2, 2)>>,
                <<Kline(1, 2), Kline(2, 1)>>}}

\* requests.get + raise_for_status + DataFrame construction
get_binance_data(response) ==
    IF response.ok
    THEN [raised |-> FALSE, df |-> to_frame(response.klines)]
    ELSE [raised |-> TRUE, df |-> <<>>]

\* every series over the timestamps 1..MaxTs, any subset of them present
PipelineSeries == {to_frame(k) : k \in KlinesFrom(1, MaxTs, 1..MaxPrice)}

Index(df) == {df[i].timestamp : i \in DOMAIN df}

Loc(df, t) == LET i == CHOOSE j \in DOMAIN df : df[j].timestamp = t IN df[i].price

RECURSIVE SortAsc(_)
SortAsc(S) ==
    IF S = {} THEN <<>>
    ELSE LET m == CHOOSE x \in S : \A y \in S : x <= y
         IN  <<m>> \o SortAsc(S \ {m})

RECURSIVE SortDesc(_)
SortDesc(S) ==
    IF S = {} THEN <<>>
    ELSE LET m == CHOOSE x \in S : \A y \in S : x >= y
         IN  <<m>> \o SortDesc(S \ {m})

----------------------------------------------------------------------------
(* Combine BTC + ETH *)

\* pd.concat([...], axis=1): outer join on the sorted union of the indexes
concat(btc, eth) ==
    LET idx == SortAsc(Index(btc) \cup Index(eth))
    IN  [index |-> idx,
         BTC |-> [i \in DOMAIN idx |->
                    IF idx[i] \in Index(btc) THEN Loc(btc, idx[i]) ELSE NaN],
         ETH |-> [i \in DOMAIN idx |->
                    IF idx[i] \in Index(eth) THEN Loc(eth, idx[i]) ELSE NaN]]

\* forward fill of one column: a gap takes the last value before it
ffill_col(col) ==
    [i \in DOMAIN col |->
        IF ~IsNaN(col[i]) THEN col[i]
        ELSE LET before == {j \in 1..(i - 1) : ~IsNaN(col[j])}
             IN  IF before = {} THEN NaN
                 ELSE col[CHOOSE j \in before : \A k \in before : k <= j]]

\* backward fill of one column: a gap takes the next value after it
bfill_col(col) ==
    [i \in DOMAIN col |->
        IF ~IsNaN(col[i]) THEN col[i]
        ELSE LET after == {j \in (i + 1)..Len(col) : ~IsNaN(col[j])}
             IN  IF after = {} THEN NaN
                 ELSE col[CHOOSE j \in after : \A k \in after : j <= k]]

ffill(frame) ==
    [index |-> frame.index, BTC |-> ffill_col(frame.BTC), ETH |-> ffill_col(frame.ETH)]

bfill(frame) ==
    [index |-> frame.index, BTC |-> bfill_col(frame.BTC), ETH |-> bfill_col(frame.ETH)]

Combine(btc, eth) == bfill(ffill(concat(btc, eth)))

EmptyFrame == [index |-> <<>>, BTC |-> <<>>, ETH |-> <<>>]

----------------------------------------------------------------------------
(* Compute Portfolios (Normalized) *)

\* data[col] / data[col].iloc[0]
normalize(col) == [i \in DOMAIN col |-> FDiv(col[i], col[1])]

Portfolios(frame) ==
    LET btc == normalize(frame.BTC)
        eth == normalize(frame.ETH)
    IN  [index |-> frame.index,
         BTC |-> btc,
         ETH |-> eth,
         mix |-> [i \in DOMAIN btc |-> FAdd(FMul(Half, btc[i]), FMul(Half, eth[i]))]]

NoPortfolios == [index |-> <<>>, BTC |-> <<>>, ETH |-> <<>>, mix |-> <<>>]

----------------------------------------------------------------------------
(* Metrics *)

iloc_last(col) == col[Len(col)]

\* variant: the comparison is not strict
Signal_ge(eth_last, btc_last) ==
    IF FGt(eth_last, btc_last) \/ FEq(eth_last, btc_last)
    THEN "ETH Recovery Detected" ELSE "BTC Leading"

\* the banner of lines 187-190
Signal(eth_last, btc_last) ==
    IF FGt(eth_last, btc_last) THEN "ETH Recovery Detected" ELSE "BTC Leading"

LogEntry(now, frame, pf) ==
    LET btc_last == iloc_last(pf.BTC)
        eth_last == iloc_last(pf.ETH)
        eth_return_pct == FMul(FSub(eth_last, F(1)), F(100))
        btc_return_pct == FMul(FSub(btc_last, F(1)), F(100))
    IN  [timestamp_utc |-> now,
         BTC_Price |-> iloc_last(frame.BTC),
         ETH_Price |-> iloc_last(frame.ETH),
         BTC_Normalized |-> btc_last,
         ETH_Normalized |-> eth_last,
         Mix_50_50 |-> iloc_last(pf.mix),
         ETH_BTC_Ratio |-> FDiv(eth_last, btc_last),
         BTC_Return |-> btc_return_pct,
         ETH_Return |-> eth_return_pct,
         Difference |-> FSub(eth_return_pct, btc_return_pct)]

----------------------------------------------------------------------------
(* Files.  A directory is a function from the names of the files in it to   *)
(* their lines; a line is a record, the header line flagged as such.        *)

Live == 0    \* snapshot_choice = "Today (Live)"

\* variant: the date is left out of the snapshot's name
snapshot_file_undated(symbol, date) == <<symbol, 1>>

\* f"{raw_data_dir}/{symbol}_{date}.csv"
snapshot_file(symbol, date) == <<symbol, date>>

\* f.split("_")[-1].split(".")[0]
date_of(f) == f[Len(f)]

\* lines 31-35: the dates of the stored snapshots, deduplicated, descending
available_dates(files) == SortDesc({date_of(f) : f \in DOMAIN files})

Elements(seq) == {seq[i] : i \in DOMAIN seq}

\* open(name, "w"): create or replace
write_file(dir, name, lines) ==
    [f \in DOMAIN dir \cup {name} |-> IF f = name THEN lines ELSE dir[f]]

SnapshotHeader == [header |-> TRUE, timestamp |-> 0, price |-> NaN]

\* DataFrame.to_csv: the header line, then one line per row
to_csv(df) ==
    <<SnapshotHeader>> \o
    [i \in DOMAIN df |->
        [header |-> FALSE, timestamp |-> df[i].timestamp, price |-> df[i].price]]

\* pd.read_csv(..., index_col="timestamp"): the first line is the header
read_csv(lines) ==
    [i \in 1..(Len(lines) - 1) |->
        [timestamp |-> lines[i + 1].timestamp, price |-> lines[i + 1].price]]

----------------------------------------------------------------------------
(* Load Data (Live or Frozen) *)

NotLoaded(outcome, fetches, files) ==
    [outcome |-> outcome, fetches |-> fetches, files |-> files,
     btc_df |-> <<>>, eth_df |-> <<>>]

\* variant: the save of lines 80-82 also runs in freeze mode
LoadFrozen_resave(files, now, snapshot_choice) ==
    LET btc_file == <<"BTCUSDT", snapshot_choice>>
        eth_file == <<"ETHUSDT", snapshot_choice>>
    IN  IF btc_file \notin DOMAIN files \/ eth_file \notin DOMAIN files
        THEN NotLoaded("file_not_found", 0, files)
        ELSE [outcome |-> "loaded", fetches |-> 0,
              files |-> write_file(
                            write_file(files, <<"BTCUSDT", now>>, files[btc_file]),
                            <<"ETHUSDT", now>>, files[eth_file]),
              btc_df |-> read_csv(files[btc_file]),
              eth_df |-> read_csv(files[eth_file])]

\* lines 64-69
LoadFrozen(files, now, snapshot_choice) ==
    LET btc_file == snapshot_file("BTCUSDT", snapshot_choice)
        eth_file == snapshot_file("ETHUSDT", snapshot_choice)
    IN  IF btc_file \notin DOMAIN files \/ eth_file \notin DOMAIN files
        THEN NotLoaded("file_not_found", 0, files)
        ELSE [outcome |-> "loaded", fetches |-> 0, files |-> files,
              btc_df |-> read_csv(files[btc_file]),
              eth_df |-> read_csv(files[eth_file])]

\* variant: each series is saved right after its own fetch
LoadLive_save_early(files, now, btc_response, eth_response) ==
    LET btc == get_binance_data(btc_response)
        eth == get_binance_data(eth_response)
        saved_btc == write_file(files, <<"BTCUSDT", now>>, to_csv(btc.df))
    IN  IF btc.raised THEN NotLoaded("fetch_error", 1, files)
        ELSE IF eth.raised THEN NotLoaded("fetch_error", 2, saved_btc)
        ELSE [outcome |-> "loaded", fetches |-> 2,
              files |-> write_file(saved_btc, <<"ETHUSDT", now>>, to_csv(eth.df)),
              btc_df |-> btc.df,
              eth_df |-> eth.df]

\* variant: an existing snapshot of today is kept, not overwritten
LoadLive_write_once(files, now, btc_response, eth_response) ==
    LET btc == get_binance_data(btc_response)
        eth == get_binance_data(eth_response)
        keep(dir, name, lines) ==
            IF name \in DOMAIN dir THEN dir ELSE write_file(dir, name, lines)
    IN  IF btc.raised THEN NotLoaded("fetch_error", 1, files)
        ELSE IF eth.raised THEN NotLoaded("fetch_error", 2, files)
        ELSE [outcome |-> "loaded", fetches |-> 2,
              files |-> keep(keep(files, <<"BTCUSDT", now>>, to_csv(btc.df)),
                             <<"ETHUSDT", now>>, to_csv(eth.df)),
              btc_df |-> btc.df,
              eth_df |-> eth.df]

\* variant: both series are saved under the BTCUSDT name
LoadLive_same_name(files, now, btc_response, eth_response) ==
    LET btc == get_binance_data(btc_response)
        eth == get_binance_data(eth_response)
    IN  IF btc.raised THEN NotLoaded("fetch_error", 1, files)
        ELSE IF eth.raised THEN NotLoaded("fetch_error", 2, files)
        ELSE [outcome |-> "loaded", fetches |-> 2,
              files |-> write_file(
                            write_file(files, <<"BTCUSDT", now>>, to_csv(btc.df)),
                            <<"BTCUSDT", now>>, to_csv(eth.df)),
              btc_df |-> btc.df,
              eth_df |-> eth.df]

\* lines 70-82
LoadLive(files, now, btc_response, eth_response) ==
    LET btc == get_binance_data(btc_response)
        eth == get_binance_data(eth_response)
    IN  IF btc.raised THEN NotLoaded("fetch_error", 1, files)
        ELSE IF eth.raised THEN NotLoaded("fetch_error", 2, files)
        ELSE [outcome |-> "loaded", fetches |-> 2,
              files |-> write_file(
                            write_file(files, snapshot_file("BTCUSDT", now),
                                       to_csv(btc.df)),
                            snapshot_file("ETHUSDT", now), to_csv(eth.df)),
              btc_df |-> btc.df,
              eth_df |-> eth.df]

----------------------------------------------------------------------------
(* Transform and render (lines 87-190) *)

\* A price column read back from a snapshot without data rows has no numeric
\* dtype; whether the EMA of such a column raises is left open.
DtypeOutcomes(mode, btc, eth) ==
    IF mode = "freeze" /\ (btc = <<>>) # (eth = <<>>) THEN BOOLEAN ELSE {TRUE}

Pipeline(btc, eth, numeric) ==
    LET frame == Combine(btc, eth)
        pf == Portfolios(frame)
    IN  IF frame.index = <<>>
        THEN [outcome |-> "index_error", charts |-> 0, banner |-> "none"]
        ELSE IF ~numeric
        THEN [outcome |-> "data_error", charts |-> IF btc = <<>> THEN 1 ELSE 2,
              banner |-> "none"]
        ELSE [outcome |-> "ok", charts |-> 3,
              banner |-> Signal(iloc_last(pf.ETH), iloc_last(pf.BTC))]

----------------------------------------------------------------------------
(* Data Logging (Daily Summary) *)

BlankEntry ==
    [timestamp_utc |-> 0, BTC_Price |-> NaN, ETH_Price |-> NaN,
     BTC_Normalized |-> NaN, ETH_Normalized |-> NaN, Mix_50_50 |-> NaN,
     ETH_BTC_Ratio |-> NaN, BTC_Return |-> NaN, ETH_Return |-> NaN,
     Difference |-> NaN]

LogHeader == [header |-> TRUE, row |-> BlankEntry]

LogLine(entry) == [header |-> FALSE, row |-> entry]

\* variant: the log is named after the date being viewed
log_filename_viewed(now, snapshot_choice) ==
    IF snapshot_choice = Live THEN now ELSE snapshot_choice

\* line 196: f"data_logs/crypto_tracker_{datetime.now():%Y-%m-%d}.csv"
log_filename(now, snapshot_choice) == now

\* variant: the append repeats the header
Logging_header_every_time(files, name, entry) ==
    IF name \notin DOMAIN files
    THEN write_file(files, name, <<LogHeader, LogLine(entry)>>)
    ELSE write_file(files, name, files[name] \o <<LogHeader, LogLine(entry)>>)

\* lines 211-214
Logging(files, name, entry) ==
    IF name \notin DOMAIN files
    THEN write_file(files, name, <<LogHeader, LogLine(entry)>>)
    ELSE write_file(files, name, Append(files[name], LogLine(entry)))

----------------------------------------------------------------------------
(* State of the storage and of the last page load *)

NoRun ==
    [mode |-> "none", choice |-> 0, outcome |-> "none", fetches |-> 0,
     charts |-> 0, banner |-> "none", error |-> "none",
     overwrote |-> FALSE, fetch_failed |-> FALSE,
     btc_df |-> <<>>, eth_df |-> <<>>]

FsIdle ==
    /\ today = 1
    /\ runs = 0
    /\ raw_data = <<>>
    /\ logs = <<>>
    /\ run = NoRun
    /\ lastFetched = <<>>
    /\ logHist = [d \in Dates |-> <<>>]

PipeIdle ==
    /\ pc = "idle"
    /\ btc_df = <<>>
    /\ eth_df = <<>>
    /\ data = EmptyFrame
    /\ portfolios = NoPortfolios
    /\ banner = "none"

----------------------------------------------------------------------------
(* The transformation pipeline alone (lines 87-190), on arbitrary inputs *)

PipeInit ==
    /\ FsIdle
    /\ pc = "loaded"
    /\ btc_df \in PipelineSeries
    /\ eth_df \in PipelineSeries
    /\ data = EmptyFrame
    /\ portfolios = NoPortfolios
    /\ banner = "none"

\* lines 87-89
CombineStep ==
    /\ pc = "loaded"
    /\ data' = Combine(btc_df, eth_df)
    /\ pc' = "combined"
    /\ UNCHANGED <<btc_df, eth_df, portfolios, banner>>
    /\ UNCHANGED fsvars

\* lines 94-102: .iloc[0] of an empty frame raises IndexError
NormalizeStep ==
    /\ pc = "combined"
    /\ IF data.index = <<>>
       THEN pc' = "index_error" /\ UNCHANGED portfolios
       ELSE pc' = "normalized" /\ portfolios' = Portfolios(data)
    /\ UNCHANGED <<btc_df, eth_df, data, banner>>
    /\ UNCHANGED fsvars

\* lines 175-190
MetricsStep ==
    /\ pc = "normalized"
    /\ banner' = Signal(iloc_last(portfolios.ETH), iloc_last(portfolios.BTC))
    /\ pc' = "done"
    /\ UNCHANGED <<btc_df, eth_df, data, portfolios>>
    /\ UNCHANGED fsvars

PipeNext == CombineStep \/ NormalizeStep \/ MetricsStep

SpecPipeline == PipeInit /\ [][PipeNext]_vars

----------------------------------------------------------------------------
(* The whole script, one page load per step *)

Init == FsIdle /\ PipeIdle

\* history: some stored snapshot got a different content
Overwrote(before, after) ==
    \E f \in DOMAIN before : f \notin DOMAIN after \/ after[f] # before[f]

\* the script from line 84 on, after the data was loaded (or loading failed)
Finish(ld, mode, snapshot_choice, numeric, fetch_failed) ==
    /\ runs' = runs + 1
    /\ raw_data' = ld.files
    /\ IF ld.outcome # "loaded"
       THEN /\ run' = [mode |-> mode, choice |-> snapshot_choice,
                       outcome |-> ld.outcome, fetches |-> ld.fetches,
                       charts |-> 0, banner |-> "none",
                       error |-> IF ld.outcome = "fetch_error"
                                 THEN "st.error" ELSE "exception",
                       overwrote |-> Overwrote(raw_data, ld.files),
                       fetch_failed |-> fetch_failed,
                       btc_df |-> <<>>, eth_df |-> <<>>]
            /\ UNCHANGED <<logs, logHist>>
       ELSE LET r == Pipeline(ld.btc_df, ld.eth_df, numeric)
                frame == Combine(ld.btc_df, ld.eth_df)
                entry == LogEntry(today, frame, Portfolios(frame))
            IN  /\ run' = [mode |-> mode, choice |-> snapshot_choice,
                           outcome |-> r.outcome, fetches |-> ld.fetches,
                           charts |-> r.charts, banner |-> r.banner,
                           error |-> IF r.outcome = "ok"
                                     THEN "none" ELSE "exception",
                           overwrote |-> Overwrote(raw_data, ld.files),
                           fetch_failed |-> fetch_failed,
                           btc_df |-> ld.btc_df, eth_df |-> ld.eth_df]
                /\ IF r.outcome = "ok"
                   THEN /\ logs' = Logging(logs, log_filename(today, snapshot_choice),
                                           entry)
                        /\ logHist' = [logHist EXCEPT ![today] = Append(@, entry)]
                   ELSE UNCHANGED <<logs, logHist>>
    /\ UNCHANGED today
    /\ UNCHANGED pipevars

\* a page load with "Today (Live)" selected
RunLive(btc_response, eth_response) ==
    /\ runs < MaxRuns
    /\ lastFetched' =
         IF btc_response.ok /\ eth_response.ok
         THEN write_file(lastFetched, today,
                         [btc |-> to_frame(btc_response.klines),
                          eth |-> to_frame(eth_response.klines)])
         ELSE lastFetched
    /\ Finish(LoadLive(raw_data, today, btc_response, eth_response),
              "live", Live, TRUE, ~btc_response.ok \/ ~eth_response.ok)

\* a page load with a stored snapshot date selected
RunFreeze(snapshot_choice) ==
    /\ runs < MaxRuns
    /\ snapshot_choice \in Elements(available_dates(raw_data))
    /\ UNCHANGED lastFetched
    /\ LET ld == LoadFrozen(raw_data, today, snapshot_choice)
       IN  \E numeric \in DtypeOutcomes("freeze", ld.btc_df, ld.eth_df) :
               Finish(ld, "freeze", snapshot_choice, numeric, FALSE)

\* midnight passes between two page loads
NextDay ==
    /\ today < MaxDay
    /\ today' = today + 1
    /\ UNCHANGED <<runs, raw_data, logs, run, lastFetched, logHist>>
    /\ UNCHANGED pipevars

Next ==
    \/ \E b \in Responses, e \in Responses : RunLive(b, e)
    \/ \E c \in Dates : RunFreeze(c)
    \/ NextDay

Spec == Init /\ [][Next]_vars

----------------------------------------------------------------------------
(* Properties of the storage, checked under Spec *)

RunStep == runs' = runs + 1

\* the lines of a snapshot hold exactly the rows of df, after one header line
HoldsSeries(lines, df) ==
    /\ Len(lines) = Len(df) + 1
    /\ lines[1].header
    /\ \A i \in 1..Len(df) :
          /\ ~lines[i + 1].header
          /\ lines[i + 1].timestamp = df[i].timestamp
          /\ lines[i + 1].price = df[i].price

\* C1: starting without a log file, after n page loads of one day that reached
\* the logging step, the day's log is one header line followed by the n rows
\* of those page loads, in order; no log file exists for a day without one.
LogIsHeaderPlusRows ==
    \A d \in Dates :
        IF logHist[d] = <<>>
        THEN d \notin DOMAIN logs
        ELSE /\ d \in DOMAIN logs
             /\ Len(logs[d]) = Len(logHist[d]) + 1
             /\ logs[d][1] = LogHeader
             /\ \A i \in 1..Len(logHist[d]) : logs[d][i + 1] = LogLine(logHist[d][i])

LogIsHeaderPlusRows_witness ==
    \E d \in Dates : Len(logHist[d]) >= 2 /\ d \in DOMAIN logs /\ Len(logs[d]) >= 3

\* C2: a live page load in which a fetch fails shows st.error and stops: no
\* chart, no banner, no snapshot file created or changed, no log row.
FetchFailureAborts ==
    [][(RunStep /\ run'.mode = "live" /\ run'.fetch_failed) =>
          /\ run'.outcome = "fetch_error"
          /\ run'.error = "st.error"
          /\ run'.charts = 0
          /\ run'.banner = "none"
          /\ raw_data' = raw_data
          /\ logs' = logs]_vars

\* the BTC fetch succeeded and the ETH fetch failed, with snapshots on disk
FetchFailureAborts_witness ==
    /\ run.mode = "live"
    /\ run.fetch_failed
    /\ run.fetches = 2
    /\ DOMAIN raw_data # {}

\* C3: a page load in freeze mode performs no fetch, leaves every snapshot
\* file as it was, and works on the rows of the two files of the chosen date.
FreezeOnlyReads ==
    [][(RunStep /\ run'.mode = "freeze") =>
          /\ run'.fetches = 0
          /\ raw_data' = raw_data
          /\ run'.outcome # "file_not_found" =>
                /\ HoldsSeries(raw_data[snapshot_file("BTCUSDT", run'.choice)],
                               run'.btc_df)
                /\ HoldsSeries(raw_data[snapshot_file("ETHUSDT", run'.choice)],
                               run'.eth_df)]_vars

FreezeOnlyReads_witness ==
    /\ run.mode = "freeze"
    /\ run.outcome = "ok"
    /\ run.choice # today
    /\ Len(run.btc_df) = 2

SnapshotsComeInPairs ==
    /\ \A d \in Dates :
          snapshot_file("BTCUSDT", d) \in DOMAIN raw_data
             <=> snapshot_file("ETHUSDT", d) \in DOMAIN raw_data
    /\ LET offered == available_dates(raw_data)
       IN  /\ \A i, j \in DOMAIN offered : i < j => offered[i] > offered[j]
           /\ \A i \in DOMAIN offered :
                 /\ snapshot_file("BTCUSDT", offered[i]) \in DOMAIN raw_data
                 /\ snapshot_file("ETHUSDT", offered[i]) \in DOMAIN raw_data
    /\ run.outcome # "file_not_found"

\* a stored date was offered, chosen and loaded
SnapshotsComeInPairs_witness ==
    /\ run.mode = "freeze"
    /\ run.outcome = "ok"
    /\ run.choice \in Elements(available_dates(raw_data))
    /\ snapshot_file("BTCUSDT", run.choice) \in DOMAIN raw_data
    /\ snapshot_file("ETHUSDT", run.choice) \in DOMAIN raw_data

----------------------------------------------------------------------------
(* Properties of the pipeline, checked under SpecPipeline *)

\* C7 as claimed: whenever the joined frame is not empty, after the fills every
\* timestamp of the union index has a value in both columns.
NoGapAfterFill ==
    (pc # "loaded" /\ data.index # <<>>) =>
        /\ Elements(data.index) = Index(btc_df) \cup Index(eth_df)
        /\ \A i \in DOMAIN data.index : ~IsNaN(data.BTC[i]) /\ ~IsNaN(data.ETH[i])

\* C8 as claimed: the first row of the normalised portfolio is 1.0 for BTC,
\* for ETH, and for the 50/50 mix.
FirstRowIsOne ==
    pc \in {"normalized", "done"} =>
        /\ FEq(portfolios.BTC[1], F(1))
        /\ FEq(portfolios.ETH[1], F(1))
        /\ FEq(portfolios.mix[1], F(1))

\* C9: a completed run shows exactly one banner: the ETH banner when the last
\* normalised ETH value is a number strictly greater than the last normalised
\* BTC value, the BTC banner otherwise (ties included); before that, none.
BannerIsStrictComparison ==
    IF pc = "done"
    THEN LET e == portfolios.ETH[Len(portfolios.ETH)]
             b == portfolios.BTC[Len(portfolios.BTC)]
             eth_greater == e[2] # 0 /\ b[2] # 0 /\ e[1] * b[2] > b[1] * e[2]
         IN  /\ banner \in {"ETH Recovery Detected", "BTC Leading"}
             /\ banner = "ETH Recovery Detected" <=> eth_greater
    ELSE banner = "none"

\* a tie of two rises reported as BTC leading
BannerIsStrictComparison_witness ==
    /\ pc = "done"
    /\ banner = "BTC Leading"
    /\ FEq(iloc_last(portfolios.ETH), iloc_last(portfolios.BTC))
    /\ FGt(iloc_last(portfolios.ETH), F(1))

====
